---- MODULE Spec2Model ----
(***************************************************************************)
(* Model of the Excel -> Postman collection compiler and results          *)
(* reconciler (src/src/excel_postman_generator.py) with the runner of      *)
(* src/src/newman_runner.py.                                               *)
(*                                                                         *)
(* Text.  A Python string is a sequence of tokens: "/" , " " , "." , "'"   *)
(* and "\\" are the separator characters the code looks at, every other    *)
(* token is a run of characters without a separator ("https:", "gw",       *)
(* "users", "200").  None and "" are both the empty sequence: the code     *)
(* tests cells with `not in (None, "")`, `not x` or _norm(x) == "" and     *)
(* never tells the two apart.                                              *)
(*                                                                         *)
(* Indices.  Column and row indices are 1-based as in openpyxl; the        *)
(* zero-based idx_* of the compiler are kept 1-based here (code idx + 1)   *)
(* and 0 stands for None.                                                  *)
(***************************************************************************)
EXTENDS Integers, Sequences, FiniteSets, TLC

VARIABLES
    wb,                    \* the loaded workbook: Seq of sheets
    wb0,                   \* history: the workbook as loaded by this run
    base_url_override,     \* argument base_url_override (text, <<>> = None)
    auth_headers,          \* argument auth_headers (ordered mapping, <<>> = None)
    pc,                    \* position in generate_postman_collection_from_excel
    sheet_i,               \* position of `for sheet in wb.worksheets`
    row_i,                 \* position of the row loop (row_num)
    last,                  \* the carried-forward values last_method .. last_name
    folders,               \* dict folders, in insertion order
    row_links,             \* list row_links
    executions,            \* list returned by run_newman_and_generate_report
    exec_pos,              \* number of items exec_iter has yielded
    cols,                  \* expected_idx, id_idx, actual_idx, status_idx of the sheet
    failed_test_case_ids,  \* list failed_test_case_ids
    written,               \* history: cells the row write-back assigned
    inserted,              \* history: result columns added per sheet in this run
    run,                   \* number of the current invocation
    arg,                   \* input of the pure function under check
    res,                   \* its result
    runner,                \* how the runner's process ended, "not_run" before
    effects                \* history: files written, processes run, mail sent

vars == << wb, wb0, base_url_override, auth_headers, pc, sheet_i, row_i, last,
           folders, row_links, executions, exec_pos, cols, failed_test_case_ids,
           written, inserted, run, arg, res, runner, effects >>

-----------------------------------------------------------------------------
(* Bounds of the model *)

\* data rows of the sheet whose layout varies
MaxRows == 2

\* data rows of the whole workbook when the row contents vary
MaxTotalRows == 3

\* invocations in a row, each on the results copy of the one before
MaxRuns == 2

\* fields of an assertion mapping, and operators of one field
MaxFields == 2

\* headers of a row's header list, and of the auth mapping
MaxHeaders == 2

\* pairs of a URL's query, and of a row's query parameters
MaxPairs == 2

-----------------------------------------------------------------------------
(* Text primitives *)

Blank == << >>

T(tok) == << tok >>

\* str.lower() on one token, for the tokens the model uses
LowerTok(t) ==
    CASE t = "Name" -> "name"
      [] t = "Method" -> "method"
      [] t = "Folder" -> "folder"
      [] t = "URL" -> "url"
      [] t = "BaseUrl" -> "baseurl"
      [] t = "Path" -> "path"
      [] t = "ExpectedStatus" -> "expectedstatus"
      [] t = "Expected" -> "expected"
      [] t = "Status" -> "status"
      [] t = "ActualStatus" -> "actualstatus"
      [] t = "ID" -> "id"
      [] t = "Notes" -> "notes"
      [] t = "A" -> "a"
      [] t = "B" -> "b"
      [] t = "S0" -> "s0"
      [] t = "S1" -> "s1"
      [] t = "S2" -> "s2"
      [] t = "HTTP:" -> "http:"
      [] t = "POST" -> "post"
      [] t = "GET" -> "get"
      [] t = "Authorization" -> "authorization"
      [] t = "AUTHORIZATION" -> "authorization"
      [] t = "Content-Type" -> "content-type"
      [] t = "X-Api-Key" -> "x-api-key"
      [] t = "x-api-key" -> "x-api-key"
      [] t = "EQ" -> "eq"
      [] t = "Exists" -> "exists"
      [] t = "GTE" -> "gte"
      [] OTHER -> t

\* str.upper() on one token
UpperTok(t) ==
    CASE t = "post" -> "POST"
      [] t = "get" -> "GET"
      [] t = "put" -> "PUT"
      [] OTHER -> t

Lower(s) == [i \in 1..Len(s) |-> LowerTok(s[i])]

Upper(s) == [i \in 1..Len(s) |-> UpperTok(s[i])]

RECURSIVE LStrip(_, _)
\* s.lstrip(ch)
LStrip(s, ch) == IF s # << >> /\ Head(s) = ch THEN LStrip(Tail(s), ch) ELSE s

RECURSIVE RStrip(_, _)
\* s.rstrip(ch)
RStrip(s, ch) ==
    IF s # << >> /\ s[Len(s)] = ch THEN RStrip(SubSeq(s, 1, Len(s) - 1), ch) ELSE s

\* s.strip(): whitespace off both ends
Strip(s) == RStrip(LStrip(s, " "), " ")

\* s.lower().startswith("http")
StartsWithHttp(s) ==
    s # << >> /\ LowerTok(Head(s)) \in {"http:", "https:", "http", "httpx"}

_norm(s) == Lower(Strip(s))

-----------------------------------------------------------------------------
(* Schema resolver *)

SYNONYMS ==
    [ name |-> << T("name"), T("testname"), T("case"), T("title"), T("apiname"),
                  <<"api", " ", "name">>, T("testcasename") >>,
      method |-> << T("method"), T("httpmethod"), T("verb"), <<"http", " ", "method">> >>,
      url |-> << T("url"), T("fullurl"), T("requesturl") >>,
      base_url |-> << T("baseurl"), T("base_url"), T("host") >>,
      path |-> << T("path"), T("endpoint"), T("route"), T("uri") >>,
      headers |-> << T("headers"), T("requestheaders") >>,
      payload |-> << T("payload"), T("body"), T("requestbody"), T("data") >>,
      expected_status |-> << T("expectedstatus"), T("expected_status"), T("status"),
                             T("expected"), T("expectedcode"), T("code") >>,
      path_params |-> << T("pathparams"), T("path_parameters"), T("path_param"),
                         T("routeparams") >>,
      query_params |-> << T("queryparams"), T("query_parameters"), T("query"),
                          T("params") >>,
      folder |-> << T("folder"), T("group"), T("suite"), T("collection"), T("module") >>,
      auth |-> << T("auth"), T("authorization"), T("token") >>,
      assertions |-> << T("expectedresponseassertions"), T("responseassertions"),
                        T("assertions"), T("expected_response_assertions") >>,
      id |-> << T("id"), T("testcaseid"), T("testcase_id"), T("test_id"), T("tcid") >> ]

\* SYNONYMS.get(logical, [logical])
SynonymsOf(logical) ==
    IF logical \in DOMAIN SYNONYMS THEN SYNONYMS[logical] ELSE << T(logical) >>

\* header_to_idx.get(name): the dict comprehension keeps the last column of a
\* repeated normalised name and drops empty names; 0 when absent.
HeaderGet(header_cells, name) ==
    LET hits == {i \in 1..Len(header_cells) :
                    _norm(header_cells[i]) = name /\ name # << >>}
    IN IF hits = {} THEN 0 ELSE CHOOSE i \in hits : \A j \in hits : j <= i

\* truthiness of the dict built by _build_header_map
_build_header_map(header_cells) ==
    {i \in 1..Len(header_cells) : _norm(header_cells[i]) # << >>}

RECURSIVE FirstSynonym(_, _)
FirstSynonym(header_cells, syns) ==
    IF syns = << >> THEN 0
    ELSE IF HeaderGet(header_cells, _norm(Head(syns))) # 0
         THEN HeaderGet(header_cells, _norm(Head(syns)))
         ELSE FirstSynonym(header_cells, Tail(syns))

_find_idx(header_cells, logical) == FirstSynonym(header_cells, SynonymsOf(logical))

_get_cell(row, idx) == IF idx = 0 THEN Blank ELSE row[idx]

\* _safe_int: None for a blank or non-numeric value, else the digits before "."
IsDigits(tok) == tok \in {"200", "404", "500", "201"}

_safe_int(value) ==
    LET s == Strip(value)
    IN IF s = << >> THEN Blank
       ELSE IF IsDigits(Head(s)) /\ (Len(s) = 1 \/ s[2] = ".")
            THEN << Head(s) >>
            ELSE Blank

-----------------------------------------------------------------------------
(* The workbook.  A sheet is [title, sheet_state, cells]; cells is the grid,   *)
(* row 1 the header row, every row max_column cells wide.  openpyxl reports   *)
(* max_row = max_column = 1 for a sheet without cells and iter_rows(min_row=1,*)
(* max_row=1) then yields one row holding one empty cell, so the grid always   *)
(* has a first row and the `except StopIteration` branches are never taken.    *)

max_row(sheet) == Len(sheet.cells)

max_column(sheet) == Len(sheet.cells[1])

HeaderRow(sheet) == sheet.cells[1]

\* all((_norm(c.value) == "" for c in row))
BlankRow(row) == \A i \in 1..Len(row) : _norm(row[i]) = << >>

\* lines 260-269: the sheets the compiler skips
CompilerSkips(sheet) ==
    sheet.sheet_state # "visible" \/ _build_header_map(HeaderRow(sheet)) = {}

-----------------------------------------------------------------------------
(* Row normaliser *)

\* lines 285-291
InitLast(sheet) ==
    [ method |-> Blank, path |-> Blank, raw_url |-> Blank, base_url |-> Blank,
      folder |-> sheet.title, name |-> Blank ]

NoLast == [ method |-> Blank, path |-> Blank, raw_url |-> Blank, base_url |-> Blank,
            folder |-> Blank, name |-> Blank ]

\* lines 297-306
RowName(header_cells, row, lst) ==
    LET name_raw == _get_cell(row, _find_idx(header_cells, "name"))
        testcase_name_raw == _get_cell(row, _find_idx(header_cells, "testcasename"))
    IN IF name_raw # Blank THEN name_raw
       ELSE IF testcase_name_raw # Blank THEN testcase_name_raw
       ELSE IF lst.name # Blank THEN lst.name
       ELSE T("Unnamed")

\* lines 308-313, before .upper(): the cell, else last_method or "GET"
RowMethod(header_cells, row, lst) ==
    LET method_val == _get_cell(row, _find_idx(header_cells, "method"))
    IN IF method_val # Blank THEN method_val
       ELSE IF lst.method # Blank THEN lst.method
       ELSE T("GET")

\* a sticky cell: the cell if non-blank, else the carried value (lines 316-335)
Carry(cell, carried) == IF cell # Blank THEN cell ELSE carried

\* the carried-forward record after lines 297-338 of one non-blank row
LastAfterRow(header_cells, row, lst) ==
    LET method_val == _get_cell(row, _find_idx(header_cells, "method"))
    IN [ lst EXCEPT
           !.name = RowName(header_cells, row, lst),
           !.method = Carry(method_val, lst.method),
           !.raw_url = Carry(_get_cell(row, _find_idx(header_cells, "url")), lst.raw_url),
           !.base_url = Carry(_get_cell(row, _find_idx(header_cells, "base_url")), lst.base_url),
           !.path = Carry(_get_cell(row, _find_idx(header_cells, "path")), lst.path) ]

\* ResolveUrl with the full URL tried before the gateway override
ResolveUrl_UrlFirst(override, raw_url_value, base_url_value, path_value) ==
    IF raw_url_value # Blank /\ Strip(raw_url_value) # Blank
    THEN Strip(raw_url_value)
    ELSE IF override # Blank /\ path_value # Blank
    THEN RStrip(override, "/") \o T("/") \o LStrip(path_value, "/")
    ELSE IF base_url_value # Blank /\ path_value # Blank
    THEN RStrip(base_url_value, "/") \o T("/") \o LStrip(path_value, "/")
    ELSE IF path_value # Blank /\ StartsWithHttp(path_value)
    THEN path_value
    ELSE Blank

\* lines 341-350: the final URL with gateway override; << >> is None
ResolveUrl(override, raw_url_value, base_url_value, path_value) ==
    IF override # Blank /\ path_value # Blank
    THEN RStrip(override, "/") \o T("/") \o LStrip(path_value, "/")
    ELSE IF raw_url_value # Blank /\ Strip(raw_url_value) # Blank
    THEN Strip(raw_url_value)
    ELSE IF base_url_value # Blank /\ path_value # Blank
    THEN RStrip(base_url_value, "/") \o T("/") \o LStrip(path_value, "/")
    ELSE IF path_value # Blank /\ StartsWithHttp(path_value)
    THEN path_value
    ELSE Blank

\* the URL of a non-blank row, from the values carried after the row's cells
RowUrl(override, header_cells, row, lst) ==
    LET l2 == LastAfterRow(header_cells, row, lst)
    IN ResolveUrl(override, l2.raw_url, l2.base_url, l2.path)

\* lines 360-365: folder_name of a row that has a URL
RowFolder(header_cells, row, lst, default_folder_name) ==
    LET folder_candidate == _get_cell(row, _find_idx(header_cells, "folder"))
    IN IF folder_candidate # Blank THEN folder_candidate
       ELSE IF lst.folder # Blank THEN lst.folder
       ELSE default_folder_name

-----------------------------------------------------------------------------
(* Assertion compiler.  assertions_dict is the parsed mapping in iteration     *)
(* order: a sequence of [field, is_dict, conditions], conditions a sequence of *)
(* [op, expected].  A test statement is one pm.test(...) block, recorded by    *)
(* its kind, field and expected value; the "valid_json" statement stands for   *)
(* lines 103-111 (the guarded parse and the 'Response is valid JSON' test).    *)

Stmt(kind, field, expected) == [ kind |-> kind, field |-> field, expected |-> expected ]

ValidJsonStmt == Stmt("valid_json", "", "")

\* lines 122-198: the branch an operator name takes; "" when no branch matches
OperatorKind(op_lower) ==
    CASE op_lower \in {"equals", "equal", "eq", "=="} -> "eql"
      [] op_lower \in {"notequals", "not_equals", "!=", "ne"} -> "not_eql"
      [] op_lower \in {"notempty", "not_empty"} -> "not_empty"
      [] op_lower \in {"greaterthanorequal", "greater_than_or_equal", "gte"} -> "at_least"
      [] op_lower \in {"greaterthan", "greater_than", "gt"} -> "above"
      [] op_lower \in {"lessthanorequal", "less_than_or_equal", "lte"} -> "at_most"
      [] op_lower \in {"lessthan", "less_than", "lt"} -> "below"
      [] op_lower \in {"contains", "includes"} -> "include"
      [] op_lower \in {"true", "istrue"} -> "true"
      [] op_lower \in {"false", "isfalse"} -> "false"
      [] op_lower \in {"exists"} -> "not_undefined"
      [] OTHER -> ""

RECURSIVE ConditionTests_CaseSensitive(_, _)
\* ConditionTests matching the operator name as written, not lower-cased
ConditionTests_CaseSensitive(field, conditions) ==
    IF conditions = << >> THEN << >>
    ELSE LET kind == OperatorKind(Head(conditions).op)
             rest == ConditionTests_CaseSensitive(field, Tail(conditions))
         IN IF kind = "" THEN rest
            ELSE << Stmt(kind, field, Head(conditions).expected) >> \o rest

RECURSIVE ConditionTests(_, _)
\* lines 119-198: the statements of one field's conditions
ConditionTests(field, conditions) ==
    IF conditions = << >> THEN << >>
    ELSE LET kind == OperatorKind(LowerTok(Head(conditions).op))
             rest == ConditionTests(field, Tail(conditions))
         IN IF kind = "" THEN rest
            ELSE << Stmt(kind, field, Head(conditions).expected) >> \o rest

RECURSIVE FieldTests(_)
\* lines 114-198
FieldTests(assertions_dict) ==
    IF assertions_dict = << >> THEN << >>
    ELSE LET e == Head(assertions_dict)
         IN (IF e.is_dict THEN ConditionTests(e.field, e.conditions) ELSE << >>)
            \o FieldTests(Tail(assertions_dict))

_build_assertion_tests(assertions_dict) ==
    << ValidJsonStmt >> \o FieldTests(assertions_dict)

\* BuildScript with the assertion tests put before the status test
BuildScript_TestsFirst(expected_status, assertions_dict) ==
    (IF assertions_dict # << >> THEN _build_assertion_tests(assertions_dict) ELSE << >>)
    \o (IF expected_status # Blank THEN << Stmt("status", "", expected_status[1]) >> ELSE << >>)

\* lines 449-458: script_lines of one compiled request
BuildScript(expected_status, assertions_dict) ==
    (IF expected_status # Blank THEN << Stmt("status", "", expected_status[1]) >> ELSE << >>)
    \o (IF assertions_dict # << >> THEN _build_assertion_tests(assertions_dict) ELSE << >>)

-----------------------------------------------------------------------------
(* Header merge.  A header is [key, value]; default_headers is the auth mapping *)
(* in iteration order, << >> for None or {}.                                    *)

\* key_to_index.get(lower_key) over the list as passed in: the last header whose
\* lower-cased key is lower_key, 0 when none (lines 206-210)
KeyToIndex(headers, lower_key) ==
    LET hits == {i \in 1..Len(headers) :
                    headers[i].key # "" /\ LowerTok(headers[i].key) = lower_key}
    IN IF hits = {} THEN 0 ELSE CHOOSE i \in hits : \A j \in hits : j <= i

RECURSIVE MergeLoop(_, _, _)
\* lines 211-220; key_to_index is built once, from the list as passed in
MergeLoop(headers, existing_headers, default_headers) ==
    IF default_headers = << >> THEN headers
    ELSE LET d == Head(default_headers)
             at == KeyToIndex(existing_headers, LowerTok(d.key))
         IN MergeLoop(IF at # 0
                      THEN [headers EXCEPT ![at].value = d.value]
                      ELSE Append(headers, [key |-> d.key, value |-> d.value]),
                      existing_headers, Tail(default_headers))

_merge_headers(existing_headers, default_headers) ==
    IF default_headers = << >> THEN existing_headers
    ELSE MergeLoop(existing_headers, existing_headers, default_headers)

\* lines 371-372
DefaultHeaders == << [key |-> "Content-Type", value |-> "application/json"] >>

\* lines 370-372: the header list of a row before the merge; headers_dict is the
\* parsed headers cell in iteration order
ListedHeaders(headers_dict) ==
    IF headers_dict = << >> THEN DefaultHeaders ELSE headers_dict

\* lines 369-373: the header list of a compiled request
RowHeaders(headers_dict, auth) ==
    _merge_headers(ListedHeaders(headers_dict), auth)

-----------------------------------------------------------------------------
(* Query merge.  A query is a sequence of [key, value] pairs, the value "" for  *)
(* 'k=' ; a mapping is such a sequence with distinct keys, in iteration order.  *)
(* Keys and values are opaque tokens: quoting leaves them apart and in place.   *)

\* line 388: parse_qsl(query), which leaves out the pairs with an empty value
\* (keep_blank_values is False)
parse_qsl(query) == SelectSeq(query, LAMBDA kv : kv.value # "")

\* d[k] = v on a mapping: the value is replaced in place, a new key goes last
DictSet(dict, k, v) ==
    IF \E i \in 1..Len(dict) : dict[i].key = k
    THEN [i \in 1..Len(dict) |-> IF dict[i].key = k THEN [key |-> k, value |-> v]
                                 ELSE dict[i]]
    ELSE Append(dict, [key |-> k, value |-> v])

RECURSIVE DictUpdate(_, _)
\* dict.update(pairs), also the comprehension {k: v for k, v in pairs} from {}
DictUpdate(dict, pairs) ==
    IF pairs = << >> THEN dict
    ELSE DictUpdate(DictSet(dict, Head(pairs).key, Head(pairs).value), Tail(pairs))

\* lines 386-391: the query of the final URL, in the order urlencode writes it
combined_query(url_query, query_params) ==
    DictUpdate(DictUpdate(<< >>, parse_qsl(url_query)), query_params)

-----------------------------------------------------------------------------
(* Collection assembler *)

\* the dict folders: a sequence of [key, name, item] in insertion order
FolderAt(fs, key) ==
    LET hits == {i \in 1..Len(fs) : fs[i].key = key}
    IN IF hits = {} THEN 0 ELSE CHOOSE i \in hits : TRUE

\* AddToFolder putting the item in place of the folder's items
AddToFolder_Overwrite(fs, folder_name, default_folder_name, item) ==
    LET folder_key == IF _norm(folder_name) # << >> THEN _norm(folder_name)
                      ELSE _norm(default_folder_name)
        at == FolderAt(fs, folder_key)
    IN IF at = 0
       THEN Append(fs, [ key |-> folder_key,
                         name |-> IF folder_name # Blank THEN folder_name
                                  ELSE default_folder_name,
                         item |-> << item >> ])
       ELSE [fs EXCEPT ![at].item = << item >>]

\* lines 470-473
AddToFolder(fs, folder_name, default_folder_name, item) ==
    LET folder_key == IF _norm(folder_name) # << >> THEN _norm(folder_name)
                      ELSE _norm(default_folder_name)
        at == FolderAt(fs, folder_key)
    IN IF at = 0
       THEN Append(fs, [ key |-> folder_key,
                         name |-> IF folder_name # Blank THEN folder_name
                                  ELSE default_folder_name,
                         item |-> << item >> ])
       ELSE [fs EXCEPT ![at].item = Append(@, item)]

RECURSIVE FlatRequests(_)
\* collection["item"] = list(folders.values()) read folder by folder: the order
\* in which the runner executes and reports the requests
FlatRequests(fs) ==
    IF fs = << >> THEN << >> ELSE Head(fs).item \o FlatRequests(Tail(fs))

\* lines 355-468: the item of a row whose URL is url, lst the values carried
\* into the row; origin is a history field naming the (sheet title, row_num)
\* the item was built from
CompileItem(header_cells, row, lst, url, hdrs, title, row_num) ==
    [ name |-> RowName(header_cells, row, lst),
      method |-> Upper(RowMethod(header_cells, row, lst)),
      header |-> RowHeaders(<< >>, hdrs),
      url |-> url,
      exec |-> BuildScript(
                  _safe_int(_get_cell(row, _find_idx(header_cells, "expected_status"))),
                  << >>),
      origin |-> << title, row_num >> ]

-----------------------------------------------------------------------------
(* Results reconciler *)

\* headers_norm.index(name) + 1 when name is in headers_norm, else 0
FirstIndex(headers_norm, name) ==
    LET hits == {i \in 1..Len(headers_norm) : headers_norm[i] = name}
    IN IF hits = {} THEN 0 ELSE CHOOSE i \in hits : \A j \in hits : i <= j

RECURSIVE FirstSynonymIndex(_, _)
\* lines 513-516 and 520-523: the first synonym found in headers_norm
FirstSynonymIndex(headers_norm, syns) ==
    IF syns = << >> THEN 0
    ELSE IF FirstIndex(headers_norm, _norm(Head(syns))) # 0
         THEN FirstIndex(headers_norm, _norm(Head(syns)))
         ELSE FirstSynonymIndex(headers_norm, Tail(syns))

HeadersNorm(cells) == [i \in 1..Len(cells[1]) |-> _norm(cells[1][i])]

ExpectedIdx(cells) == FirstSynonymIndex(HeadersNorm(cells), SYNONYMS.expected_status)

IdIdx(cells) == FirstSynonymIndex(HeadersNorm(cells), SYNONYMS.id)

\* find_col comparing the normalised header with the name
find_col_Normalised(cells, name) == FirstIndex(HeadersNorm(cells), name)

\* lines 526-534: the first column whose header cell equals name exactly
find_col(cells, name) == FirstIndex(cells[1], name)

Blanks(n) == [i \in 1..n |-> Blank]

\* insert_cols adding the blank cells at the end of every row
insert_cols_AtEnd(cells, idx, amount) ==
    [r \in 1..Len(cells) |-> cells[r] \o Blanks(amount)]

\* Worksheet.insert_cols(idx, amount): the cells at columns >= idx move right
insert_cols(cells, idx, amount) ==
    [r \in 1..Len(cells) |->
        IF idx > Len(cells[r]) THEN cells[r]
        ELSE SubSeq(cells[r], 1, idx - 1) \o Blanks(amount)
             \o SubSeq(cells[r], idx, Len(cells[r]))]

\* sheet.cell(row=r, column=c).value = v; a column past max_column widens the grid
SetCell(cells, r, c, v) ==
    LET wide == IF c > Len(cells[1])
                THEN [i \in 1..Len(cells) |-> cells[i] \o Blanks(c - Len(cells[i]))]
                ELSE cells
    IN [wide EXCEPT ![r][c] = v]

ActualStatusName == T("ActualStatus")

StatusName == T("Status")

\* lines 536-569: the sheet after the result columns are resolved or inserted,
\* with actual_idx, status_idx and the number of columns added
PlaceColumns(cells) ==
    LET expected_idx == ExpectedIdx(cells)
        actual0 == find_col(cells, ActualStatusName)
        status0 == find_col(cells, StatusName)
    IN IF expected_idx # 0
       THEN IF actual0 = 0 /\ status0 = 0
            THEN LET c1 == insert_cols(cells, expected_idx + 1, 2)
                     c2 == SetCell(c1, 1, expected_idx + 1, ActualStatusName)
                     c3 == SetCell(c2, 1, expected_idx + 2, StatusName)
                 IN [ cells |-> c3, actual_idx |-> expected_idx + 1,
                      status_idx |-> expected_idx + 2, added |-> 2 ]
            ELSE LET a1 == IF actual0 = 0
                           THEN SetCell(insert_cols(cells, expected_idx + 1, 1),
                                        1, expected_idx + 1, ActualStatusName)
                           ELSE cells
                     actual_idx == IF actual0 = 0 THEN expected_idx + 1 ELSE actual0
                     status1 == IF actual0 = 0 THEN find_col(a1, StatusName) ELSE status0
                     insert_at == actual_idx + 1
                     a2 == IF status1 = 0
                           THEN SetCell(insert_cols(a1, insert_at, 1), 1, insert_at, StatusName)
                           ELSE a1
                 IN [ cells |-> a2, actual_idx |-> actual_idx,
                      status_idx |-> IF status1 = 0 THEN insert_at ELSE status1,
                      added |-> (IF actual0 = 0 THEN 1 ELSE 0)
                                + (IF status1 = 0 THEN 1 ELSE 0) ]
       ELSE LET max_col == Len(cells[1])
                actual_idx == IF actual0 = 0 THEN max_col + 1 ELSE actual0
                b1 == IF actual0 = 0 THEN SetCell(cells, 1, actual_idx, ActualStatusName)
                      ELSE cells
                max_col2 == IF actual0 = 0 THEN max_col + 1 ELSE max_col
                status_idx == IF status0 = 0 THEN max_col2 + 1 ELSE status0
                b2 == IF status0 = 0 THEN SetCell(b1, 1, status_idx, StatusName) ELSE b1
            IN [ cells |-> b2, actual_idx |-> actual_idx, status_idx |-> status_idx,
                 added |-> (IF actual0 = 0 THEN 1 ELSE 0) + (IF status0 = 0 THEN 1 ELSE 0) ]

\* Verdict looking at the first assertion only
Verdict_FirstAssertion(exec_item) ==
    IF exec_item.assertions # << >> /\ exec_item.assertions[1]
    THEN "FAILED" ELSE "PASSED"

\* lines 581-585
Verdict(exec_item) ==
    IF \E i \in 1..Len(exec_item.assertions) : exec_item.assertions[i]
    THEN "FAILED" ELSE "PASSED"

\* lines 587-590: the two cells written for one linked row
WriteRow(cells, row_num, actual_idx, status_idx, exec_item) ==
    SetCell(SetCell(cells, row_num, actual_idx, exec_item.code),
            row_num, status_idx, T(Verdict(exec_item)))

\* lines 592-602: what a FAILED row appends to failed_test_case_ids; cells is
\* the sheet after the row's two cells were written
FailureId(cells, row_num, id_idx, exec_item) ==
    LET id_val == IF id_idx # 0 THEN cells[row_num][id_idx] ELSE Blank
    IN IF Verdict(exec_item) # "FAILED" THEN << >>
       ELSE IF id_val # Blank THEN << id_val >>
       ELSE IF exec_item.name # Blank THEN << exec_item.name >>
       ELSE << >>

\* (sheet.title, row_num) in row_links
Linked(links, title, row_num) ==
    \E k \in 1..Len(links) : links[k] = << title, row_num >>

-----------------------------------------------------------------------------
(* generate_postman_collection_from_excel, step by step *)

NoCols == [ expected_idx |-> 0, id_idx |-> 0, actual_idx |-> 0, status_idx |-> 0 ]

CurSheet == wb[sheet_i]

CurRow == CurSheet.cells[row_i]

\* lines 259-269: a hidden sheet or one without a header is passed over
CompileSkipSheet ==
    /\ pc = "compile" /\ sheet_i <= Len(wb)
    /\ row_i = 1
    /\ CompilerSkips(CurSheet)
    /\ sheet_i' = sheet_i + 1
    /\ UNCHANGED << wb, wb0, base_url_override, auth_headers, pc, row_i, last, folders,
                    row_links, executions, exec_pos, cols, failed_test_case_ids,
                    written, inserted, run, arg, res, runner, effects >>

\* lines 271-291: the header is resolved and the carried values are initialised
CompileEnterSheet ==
    /\ pc = "compile" /\ sheet_i <= Len(wb)
    /\ row_i = 1
    /\ ~CompilerSkips(CurSheet)
    /\ row_i' = 2
    /\ last' = InitLast(CurSheet)
    /\ UNCHANGED << wb, wb0, base_url_override, auth_headers, pc, sheet_i, folders,
                    row_links, executions, exec_pos, cols, failed_test_case_ids,
                    written, inserted, run, arg, res, runner, effects >>

\* CompileBlankRow with the carried values set back to the sheet's defaults
CompileBlankRow_Resets ==
    /\ pc = "compile" /\ sheet_i <= Len(wb)
    /\ row_i >= 2 /\ row_i <= max_row(CurSheet)
    /\ BlankRow(CurRow)
    /\ row_i' = row_i + 1
    /\ last' = InitLast(CurSheet)
    /\ UNCHANGED << wb, wb0, base_url_override, auth_headers, pc, sheet_i, folders,
                    row_links, executions, exec_pos, cols, failed_test_case_ids,
                    written, inserted, run, arg, res, runner, effects >>

\* lines 294-295: a row whose cells are all blank
CompileBlankRow ==
    /\ pc = "compile" /\ sheet_i <= Len(wb)
    /\ row_i >= 2 /\ row_i <= max_row(CurSheet)
    /\ BlankRow(CurRow)
    /\ row_i' = row_i + 1
    /\ UNCHANGED << wb, wb0, base_url_override, auth_headers, pc, sheet_i, last, folders,
                    row_links, executions, exec_pos, cols, failed_test_case_ids,
                    written, inserted, run, arg, res, runner, effects >>

\* lines 297-353: a row that resolves to no URL
CompileDroppedRow ==
    /\ pc = "compile" /\ sheet_i <= Len(wb)
    /\ row_i >= 2 /\ row_i <= max_row(CurSheet)
    /\ ~BlankRow(CurRow)
    /\ RowUrl(base_url_override, HeaderRow(CurSheet), CurRow, last) = Blank
    /\ last' = LastAfterRow(HeaderRow(CurSheet), CurRow, last)
    /\ row_i' = row_i + 1
    /\ UNCHANGED << wb, wb0, base_url_override, auth_headers, pc, sheet_i, folders,
                    row_links, executions, exec_pos, cols, failed_test_case_ids,
                    written, inserted, run, arg, res, runner, effects >>

\* lines 297-475: a row that is compiled into a request
CompileRequestRow ==
    /\ pc = "compile" /\ sheet_i <= Len(wb)
    /\ row_i >= 2 /\ row_i <= max_row(CurSheet)
    /\ ~BlankRow(CurRow)
    /\ LET h == HeaderRow(CurSheet)
           url == RowUrl(base_url_override, h, CurRow, last)
           folder_name == RowFolder(h, CurRow, last, CurSheet.title)
           item == CompileItem(h, CurRow, last, url, auth_headers, CurSheet.title, row_i)
       IN /\ url # Blank
          /\ last' = [LastAfterRow(h, CurRow, last) EXCEPT
                         !.folder = Carry(_get_cell(CurRow, _find_idx(h, "folder")), @)]
          /\ folders' = AddToFolder(folders, folder_name, CurSheet.title, item)
          /\ row_links' = Append(row_links, << CurSheet.title, row_i >>)
    /\ row_i' = row_i + 1
    /\ UNCHANGED << wb, wb0, base_url_override, auth_headers, pc, sheet_i,
                    executions, exec_pos, cols, failed_test_case_ids,
                    written, inserted, run, arg, res, runner, effects >>

\* the row loop of a sheet is exhausted: on to the next sheet
CompileNextSheet ==
    /\ pc = "compile" /\ sheet_i <= Len(wb)
    /\ row_i >= 2 /\ row_i > max_row(CurSheet)
    /\ sheet_i' = sheet_i + 1
    /\ row_i' = 1
    /\ UNCHANGED << wb, wb0, base_url_override, auth_headers, pc, last, folders,
                    row_links, executions, exec_pos, cols, failed_test_case_ids,
                    written, inserted, run, arg, res, runner, effects >>

\* how the runner's process can end (newman_runner.py lines 30-37): exit 0, a
\* non-zero exit with newman_results.json written, a non-zero exit without it
RunnerOutcomes == { "ok", "failed_with_artifact", "failed_no_artifact" }

\* the outcomes of a run in which some assertion may have failed
FailedOutcomes == { "failed_with_artifact", "failed_no_artifact" }

\* lines 477-498 with newman_runner.py lines 30-44 and 163-164: the collection is
\* written and run; with the artifact the runner reports the requests in
\* collection order, the k-th execution carrying the k-th request's name,
\* possibly fewer than all; without it lines 35-37 return no execution at all
RunNewman(kinds, outcomes) ==
    /\ pc = "compile" /\ sheet_i > Len(wb)
    /\ runner' \in outcomes
    /\ LET flat == FlatRequests(folders)
       IN \E m \in 0..Len(flat) :
            \E f \in [1..m -> kinds] :
               /\ runner' = "failed_no_artifact" => m = 0
               /\ executions' = [k \in 1..m |->
                                [ code |-> f[k].code, assertions |-> f[k].assertions,
                                  name |-> flat[k].name ]]
    /\ effects' = effects \o << "collection_file", "newman" >>
    /\ pc' = "reconcile"
    /\ sheet_i' = 1
    /\ row_i' = 1
    /\ exec_pos' = 0
    /\ UNCHANGED << wb, wb0, base_url_override, auth_headers, last, folders,
                    row_links, cols, failed_test_case_ids,
                    written, inserted, run, arg, res >>

\* lines 502-503
ReconcileSkipSheet ==
    /\ pc = "reconcile" /\ sheet_i <= Len(wb)
    /\ row_i = 1
    /\ CurSheet.sheet_state # "visible"
    /\ sheet_i' = sheet_i + 1
    /\ UNCHANGED << wb, wb0, base_url_override, auth_headers, pc, row_i, last, folders,
                    row_links, executions, exec_pos, cols, failed_test_case_ids,
                    written, inserted, run, arg, res, runner, effects >>

\* ReconcileColumns with exec_iter created anew for every sheet
ReconcileColumns_FreshIterator ==
    /\ pc = "reconcile" /\ sheet_i <= Len(wb)
    /\ row_i = 1
    /\ CurSheet.sheet_state = "visible"
    /\ LET placed == PlaceColumns(CurSheet.cells)
       IN /\ wb' = [wb EXCEPT ![sheet_i].cells = placed.cells]
          /\ cols' = [ expected_idx |-> ExpectedIdx(CurSheet.cells),
                       id_idx |-> IdIdx(CurSheet.cells),
                       actual_idx |-> placed.actual_idx,
                       status_idx |-> placed.status_idx ]
          /\ inserted' = [inserted EXCEPT ![sheet_i] = placed.added]
    /\ row_i' = 2
    /\ exec_pos' = 0
    /\ UNCHANGED << wb0, base_url_override, auth_headers, pc, sheet_i, last, folders,
                    row_links, executions, failed_test_case_ids,
                    written, run, arg, res, runner, effects >>

\* lines 504-569: the columns of a visible sheet are resolved or inserted
ReconcileColumns ==
    /\ pc = "reconcile" /\ sheet_i <= Len(wb)
    /\ row_i = 1
    /\ CurSheet.sheet_state = "visible"
    /\ LET placed == PlaceColumns(CurSheet.cells)
       IN /\ wb' = [wb EXCEPT ![sheet_i].cells = placed.cells]
          /\ cols' = [ expected_idx |-> ExpectedIdx(CurSheet.cells),
                       id_idx |-> IdIdx(CurSheet.cells),
                       actual_idx |-> placed.actual_idx,
                       status_idx |-> placed.status_idx ]
          /\ inserted' = [inserted EXCEPT ![sheet_i] = placed.added]
    /\ row_i' = 2
    /\ UNCHANGED << wb0, base_url_override, auth_headers, pc, sheet_i, last, folders,
                    row_links, executions, exec_pos, failed_test_case_ids,
                    written, run, arg, res, runner, effects >>

\* lines 573-574: a row that is not linked
ReconcileUnlinkedRow ==
    /\ pc = "reconcile" /\ sheet_i <= Len(wb)
    /\ row_i >= 2 /\ row_i <= max_row(CurSheet)
    /\ ~Linked(row_links, CurSheet.title, row_i)
    /\ row_i' = row_i + 1
    /\ UNCHANGED << wb, wb0, base_url_override, auth_headers, pc, sheet_i, last, folders,
                    row_links, executions, exec_pos, cols, failed_test_case_ids,
                    written, inserted, run, arg, res, runner, effects >>

\* lines 575-602: a linked row receives the next execution
ReconcileRow ==
    /\ pc = "reconcile" /\ sheet_i <= Len(wb)
    /\ row_i >= 2 /\ row_i <= max_row(CurSheet)
    /\ Linked(row_links, CurSheet.title, row_i)
    /\ exec_pos < Len(executions)
    /\ LET exec_item == executions[exec_pos + 1]
           cells2 == WriteRow(CurSheet.cells, row_i, cols.actual_idx, cols.status_idx,
                              exec_item)
       IN /\ wb' = [wb EXCEPT ![sheet_i].cells = cells2]
          /\ failed_test_case_ids' =
                failed_test_case_ids \o FailureId(cells2, row_i, cols.id_idx, exec_item)
          /\ written' = written \cup
                { [ sheet |-> sheet_i, row |-> row_i, column |-> cols.actual_idx,
                    value |-> exec_item.code, fill |-> "" ],
                  [ sheet |-> sheet_i, row |-> row_i, column |-> cols.status_idx,
                    value |-> T(Verdict(exec_item)),
                    fill |-> IF Verdict(exec_item) = "PASSED" THEN "GREEN" ELSE "RED" ] }
    /\ exec_pos' = exec_pos + 1
    /\ row_i' = row_i + 1
    /\ UNCHANGED << wb0, base_url_override, auth_headers, pc, sheet_i, last, folders,
                    row_links, executions, cols, inserted, run, arg, res, runner, effects >>

\* lines 575-578: exec_iter is exhausted at a linked row: the row loop breaks
ReconcileBreak ==
    /\ pc = "reconcile" /\ sheet_i <= Len(wb)
    /\ row_i >= 2 /\ row_i <= max_row(CurSheet)
    /\ Linked(row_links, CurSheet.title, row_i)
    /\ exec_pos >= Len(executions)
    /\ sheet_i' = sheet_i + 1
    /\ row_i' = 1
    /\ UNCHANGED << wb, wb0, base_url_override, auth_headers, pc, last, folders,
                    row_links, executions, exec_pos, cols, failed_test_case_ids,
                    written, inserted, run, arg, res, runner, effects >>

\* range(2, sheet.max_row + 1) is exhausted: on to the next sheet
ReconcileNextSheet ==
    /\ pc = "reconcile" /\ sheet_i <= Len(wb)
    /\ row_i >= 2 /\ row_i > max_row(CurSheet)
    /\ sheet_i' = sheet_i + 1
    /\ row_i' = 1
    /\ UNCHANGED << wb, wb0, base_url_override, auth_headers, pc, last, folders,
                    row_links, executions, exec_pos, cols, failed_test_case_ids,
                    written, inserted, run, arg, res, runner, effects >>

\* lines 604-610: the workbook is saved as the results copy and the call returns
SaveResults ==
    /\ pc = "reconcile" /\ sheet_i > Len(wb)
    /\ pc' = "done"
    /\ effects' = Append(effects, "results_file")
    /\ UNCHANGED << wb, wb0, base_url_override, auth_headers, sheet_i, row_i, last,
                    folders, row_links, executions, exec_pos, cols,
                    failed_test_case_ids, written, inserted, run, arg, res, runner >>

\* a later invocation on the results copy of the one before (lines 235-257)
Rerun ==
    /\ pc = "done" /\ run < MaxRuns
    /\ run' = run + 1
    /\ wb0' = wb
    /\ pc' = "compile"
    /\ sheet_i' = 1
    /\ row_i' = 1
    /\ last' = NoLast
    /\ folders' = << >>
    /\ row_links' = << >>
    /\ executions' = << >>
    /\ exec_pos' = 0
    /\ cols' = NoCols
    /\ failed_test_case_ids' = << >>
    /\ written' = {}
    /\ inserted' = [i \in 1..Len(wb) |-> 0]
    /\ runner' = "not_run"
    /\ effects' = << >>
    /\ UNCHANGED << wb, base_url_override, auth_headers, arg, res >>

-----------------------------------------------------------------------------------------------------------------------------------------------------
(* main.  arg is the configuration and the auth endpoint's answer:              *)
(* [excel_path, auth: [present, base_url, endpoint], reply: [kind, token],      *)
(* recipients]; gateway_base_url is base_url_override.                          *)

\* fetch_auth_token returning whatever is at the token path, even nothing
fetch_auth_token_Unchecked(base_url, auth_config, reply) ==
    IF base_url = Blank THEN [error |-> TRUE, token |-> Blank]
    ELSE IF ~auth_config.present THEN [error |-> TRUE, token |-> Blank]
    ELSE IF auth_config.endpoint = Blank THEN [error |-> TRUE, token |-> Blank]
    ELSE IF reply.kind = "unreachable" THEN [error |-> TRUE, token |-> Blank]
    ELSE IF reply.kind = "not_json" THEN [error |-> TRUE, token |-> Blank]
    ELSE [error |-> FALSE, token |-> reply.token]

\* auth_client.py lines 23-58; the result is [error, token]
fetch_auth_token(base_url, auth_config, reply) ==
    IF base_url = Blank THEN [error |-> TRUE, token |-> Blank]
    ELSE IF ~auth_config.present THEN [error |-> TRUE, token |-> Blank]
    ELSE IF auth_config.endpoint = Blank THEN [error |-> TRUE, token |-> Blank]
    ELSE IF reply.kind = "unreachable" THEN [error |-> TRUE, token |-> Blank]
    ELSE IF reply.kind = "not_json" THEN [error |-> TRUE, token |-> Blank]
    ELSE IF reply.token = Blank THEN [error |-> TRUE, token |-> Blank]
    ELSE [error |-> FALSE, token |-> reply.token]

\* main.py line 21 and line 23
MainToken ==
    fetch_auth_token(IF arg.auth.base_url # Blank THEN arg.auth.base_url
                     ELSE base_url_override,
                     arg.auth, arg.reply)

\* main.py lines 13-16 and 73-76: no excel_path, nothing is done
MainNoExcel ==
    /\ pc = "main"
    /\ ~arg.excel_path
    /\ pc' = "returned"
    /\ UNCHANGED << wb, wb0, base_url_override, auth_headers, sheet_i, row_i, last,
                    folders, row_links, executions, exec_pos, cols,
                    failed_test_case_ids, written, inserted, run, arg, res, runner, effects >>

\* main.py lines 17-23 and 38-40: the token cannot be fetched
MainAuthError ==
    /\ pc = "main"
    /\ arg.excel_path
    /\ arg.auth.present
    /\ MainToken.error
    /\ pc' = "aborted"
    /\ UNCHANGED << wb, wb0, base_url_override, auth_headers, sheet_i, row_i, last,
                    folders, row_links, executions, exec_pos, cols,
                    failed_test_case_ids, written, inserted, run, arg, res, runner, effects >>

\* main.py lines 17-49: the auth header is built (lines 24-30, header_name and
\* header_prefix at their defaults) and the generator is entered
MainGenerate ==
    /\ pc = "main"
    /\ arg.excel_path
    /\ arg.auth.present => ~MainToken.error
    /\ auth_headers' =
          IF arg.auth.present
          THEN << [key |-> "Authorization", value |-> << "Bearer " >> \o MainToken.token] >>
          ELSE << >>
    /\ pc' = "compile"
    /\ UNCHANGED << wb, wb0, base_url_override, sheet_i, row_i, last,
                    folders, row_links, executions, exec_pos, cols,
                    failed_test_case_ids, written, inserted, run, arg, res, runner, effects >>

\* main.py lines 55-72: the results are mailed to the recipients
MainEmail ==
    /\ pc = "done"
    /\ arg.recipients
    /\ effects' = Append(effects, "email")
    /\ pc' = "returned"
    /\ UNCHANGED << wb, wb0, base_url_override, auth_headers, sheet_i, row_i, last,
                    folders, row_links, executions, exec_pos, cols,
                    failed_test_case_ids, written, inserted, run, arg, res, runner >>

\* main.py lines 55-60 and 73: no recipient
MainReturn ==
    /\ pc = "done"
    /\ ~arg.recipients
    /\ pc' = "returned"
    /\ UNCHANGED << wb, wb0, base_url_override, auth_headers, sheet_i, row_i, last,
                    folders, row_links, executions, exec_pos, cols,
                    failed_test_case_ids, written, inserted, run, arg, res, runner, effects >>

-----
(* Inputs *)

SeqsUpTo(S, n) == UNION {[1..k -> S] : k \in 0..n}

Sheet(title, state, header, rows) ==
    [ title |-> T(title), sheet_state |-> state, cells |-> << header >> \o rows ]

Gateway == << "https:", "/", "/", "gw", "/" >>

\* main.py lines 24-30: the one auth header main builds
BearerHeader == << [key |-> "Authorization", value |-> "Bearer t"] >>

\* the values a data cell takes under a header
CellDomain(h) ==
    CASE h = T("Path") -> { Blank, << "/", "a" >> }
      [] h = T("ID") -> { Blank, T("T1") }
      [] h = T("ExpectedStatus") -> { T("200") }
      [] h = T("Expected") -> { T("200") }
      [] h = T("Status") -> { T("200") }
      [] h = T("ActualStatus") -> { T("404") }
      [] h = T("Notes") -> { T("n") }
      [] OTHER -> { Blank }

RECURSIVE RowsOf(_)
\* the rows of a layout: every choice of one cell value per column
RowsOf(header) ==
    IF header = << >> THEN { << >> }
    ELSE {<< c >> \o r : c \in CellDomain(Head(header)), r \in RowsOf(Tail(header))}

\* the state on entry of generate_postman_collection_from_excel (lines 235-257)
InitPipeline(workbooks, overrides) ==
    /\ wb \in workbooks
    /\ wb0 = wb
    /\ base_url_override \in overrides
    /\ auth_headers = BearerHeader
    /\ pc = "compile"
    /\ sheet_i = 1
    /\ row_i = 1
    /\ last = NoLast
    /\ folders = << >>
    /\ row_links = << >>
    /\ executions = << >>
    /\ exec_pos = 0
    /\ cols = NoCols
    /\ failed_test_case_ids = << >>
    /\ written = {}
    /\ inserted = [i \in 1..Len(wb) |-> 0]
    /\ run = 1
    /\ arg = << >>
    /\ res = << >>
    /\ runner = "not_run"
    /\ effects = << >>

(* Workbooks whose row contents vary: two sheets of one layout *)

StickyLayout == << T("Name"), T("Method"), T("Folder"), T("Path") >>

StickyRows ==
    { << Blank, Blank, Blank, Blank >>,
      << T("N1"), T("post"), T("A"), << "/", "a" >> >>,
      << Blank, Blank, Blank, << "/", "b" >> >>,
      << T("N2"), T("put"), T("B"), Blank >>,
      << Blank, Blank, T("B"), << "/", "a" >> >>,
      << T("N2"), Blank, Blank, Blank >> }

StickyWorkbooks ==
    UNION { { << Sheet("S1", st, StickyLayout, r1),
                 Sheet("S2", "visible", StickyLayout, r2) >> :
                st \in {"visible", "hidden"},
                r1 \in [1..n1 -> StickyRows],
                r2 \in UNION {[1..n2 -> StickyRows] : n2 \in 0..(MaxTotalRows - n1)} } :
            n1 \in 0..MaxTotalRows }

InitCompile == InitPipeline(StickyWorkbooks, {Gateway})

\* the compiler's loop, up to the assembled collection
NextCompile ==
    \/ CompileSkipSheet
    \/ CompileEnterSheet
    \/ CompileBlankRow
    \/ CompileDroppedRow
    \/ CompileRequestRow
    \/ CompileNextSheet

SpecCompile == InitCompile /\ [][NextCompile]_vars

(* Workbooks whose URL cells vary: one visible sheet, then a hidden one *)

UrlLayout == << T("URL"), T("BaseUrl"), T("Path") >>

UrlRows ==
    LET u == << " ", "https:", "/", "/", "api", "/", "v1", " " >>
        b == << "http:", "/", "/", "h", "/" >>
        p == << "/", "p" >>
    IN { << u, Blank, Blank >>,
         << << " " >>, Blank, Blank >>,
         << Blank, b, p >>,
         << Blank, Blank, p >>,
         << Blank, Blank, << "HTTP:", "/", "/", "x", "/", "q" >> >>,
         << u, b, p >>,
         << << " " >>, Blank, p >>,
         << Blank, b, Blank >>,
         << Blank, Blank, Blank >> }

UrlWorkbooks ==
    { << Sheet("S1", "visible", UrlLayout, r), Sheet("S2", "hidden", UrlLayout, << >>) >> :
        r \in SeqsUpTo(UrlRows, MaxRows) }

InitUrl == InitPipeline(UrlWorkbooks, {Blank, Gateway})

SpecUrl == InitUrl /\ [][NextCompile]_vars

(* Workbooks whose header layout varies: the sheet S1 of the layout, alone,  *)
(* followed by a sheet with one linked row, or preceded by a sheet the        *)
(* compiler skips (hidden, or without any header)                             *)

ReconLayouts ==
    { << T("ID"), T("Path"), T("ExpectedStatus") >>,
      << T("Path"), T("ExpectedStatus"), T("ID") >>,
      << T("Path"), T("ExpectedStatus"), T("Notes") >>,
      << T("Path"), T("ID") >>,
      << T("Path"), T("Status") >>,
      << T("Path"), T("Expected") >>,
      << T("Path"), T("ExpectedStatus"), T("ActualStatus"), T("Status"), T("ID") >>,
      << T("ActualStatus"), T("Path"), T("ExpectedStatus"), T("ID") >> }

\* the data rows of a layout: one value per column, or an empty row
DataRows(header) == RowsOf(header) \cup { Blanks(Len(header)) }

TailLayout == << T("Path"), T("ExpectedStatus") >>

TailSheet == Sheet("S2", "visible", TailLayout, << << << "/", "a" >>, T("404") >> >>)

HiddenSheet == Sheet("S0", "hidden", TailLayout, << << << "/", "a" >>, T("404") >> >>)

BareSheet == Sheet("S0", "visible", << Blank, Blank >>, << << << "/", "a" >>, T("404") >> >>)

LayoutWorkbooks(rowsets(_)) ==
    UNION { { << s1 >>, << s1, TailSheet >>, << HiddenSheet, s1 >>, << BareSheet, s1 >> } :
            s1 \in { Sheet("S1", "visible", h[1], h[2]) :
                        h \in UNION { {<< l, r >> : r \in rowsets(l)} : l \in ReconLayouts } } }

ReconRowsets(header) == SeqsUpTo(DataRows(header), MaxRows)

InitReconcile == InitPipeline(LayoutWorkbooks(ReconRowsets), {Gateway})

\* what the runner reports of one request: the response code and, per
\* assertion, whether its error is non-null
ExecKinds ==
    { [ code |-> T("200"), assertions |-> << FALSE >> ],
      [ code |-> T("500"), assertions |-> << FALSE, TRUE >> ] }

\* one invocation of generate_postman_collection_from_excel
NextReconcile ==
    \/ CompileSkipSheet
    \/ CompileEnterSheet
    \/ CompileBlankRow
    \/ CompileDroppedRow
    \/ CompileRequestRow
    \/ CompileNextSheet
    \/ RunNewman(ExecKinds, FailedOutcomes)
    \/ ReconcileSkipSheet
    \/ ReconcileColumns
    \/ ReconcileUnlinkedRow
    \/ ReconcileRow
    \/ ReconcileBreak
    \/ ReconcileNextSheet
    \/ SaveResults

SpecReconcile == InitReconcile /\ [][NextReconcile]_vars

(* Repeated invocations, each on the results copy of the one before *)

RerunRows(header) ==
    { [i \in 1..Len(header) |->
          IF header[i] = T("Path") THEN << "/", "a" >>
          ELSE CHOOSE c \in CellDomain(header[i]) : c # Blank],
      Blanks(Len(header)) }

RerunRowsets(header) == SeqsUpTo(RerunRows(header), MaxRows)

InitRerun == InitPipeline(LayoutWorkbooks(RerunRowsets), {Gateway})

RerunExecKinds == { [ code |-> T("500"), assertions |-> << FALSE, TRUE >> ] }

NextRerun ==
    \/ CompileSkipSheet
    \/ CompileEnterSheet
    \/ CompileBlankRow
    \/ CompileDroppedRow
    \/ CompileRequestRow
    \/ CompileNextSheet
    \/ RunNewman(RerunExecKinds, FailedOutcomes)
    \/ ReconcileSkipSheet
    \/ ReconcileColumns
    \/ ReconcileUnlinkedRow
    \/ ReconcileRow
    \/ ReconcileBreak
    \/ ReconcileNextSheet
    \/ SaveResults
    \/ Rerun

SpecRerun == InitRerun /\ [][NextRerun]_vars

------------------------------------------------------------------------(* main over a small workbook: every configuration of the auth step, every     *)
(* way the runner can end, with and without recipients                          *)

MainRows == { << << "/", "a" >>, T("200") >>,
              << << "HTTP:", "/", "/", "x", "/", "q" >>, Blank >>,
              << Blank, Blank >> }

MainWorkbooks ==
    UNION { { << Sheet("S1", "visible", TailLayout, r) >>,
              << HiddenSheet, Sheet("S1", "visible", TailLayout, r) >> } :
            r \in SeqsUpTo(MainRows, MaxRows) }

AuthConfigs ==
    { [present |-> FALSE, base_url |-> Blank, endpoint |-> Blank] }
    \cup [present : {TRUE}, base_url : {Blank, << "https:", "/", "/", "auth" >>},
          endpoint : {Blank, << "login" >>}]

AuthReplies ==
    { [kind |-> "unreachable", token |-> Blank],
      [kind |-> "not_json", token |-> Blank],
      [kind |-> "json", token |-> Blank],
      [kind |-> "json", token |-> T("t")] }

InitMain ==
    /\ wb \in MainWorkbooks
    /\ wb0 = wb
    /\ base_url_override \in {Blank, Gateway}
    /\ auth_headers = << >>
    /\ pc = "main"
    /\ sheet_i = 1
    /\ row_i = 1
    /\ last = NoLast
    /\ folders = << >>
    /\ row_links = << >>
    /\ executions = << >>
    /\ exec_pos = 0
    /\ cols = NoCols
    /\ failed_test_case_ids = << >>
    /\ written = {}
    /\ inserted = [i \in 1..Len(wb) |-> 0]
    /\ run = 1
    /\ arg \in [excel_path : BOOLEAN, auth : AuthConfigs, reply : AuthReplies,
                 recipients : BOOLEAN]
    /\ res = << >>
    /\ runner = "not_run"
    /\ effects = << >>

NextMain ==
    \/ MainNoExcel
    \/ MainAuthError
    \/ MainGenerate
    \/ CompileSkipSheet
    \/ CompileEnterSheet
    \/ CompileBlankRow
    \/ CompileDroppedRow
    \/ CompileRequestRow
    \/ CompileNextSheet
    \/ RunNewman(ExecKinds, RunnerOutcomes)
    \/ ReconcileSkipSheet
    \/ ReconcileColumns
    \/ ReconcileUnlinkedRow
    \/ ReconcileRow
    \/ ReconcileBreak
    \/ ReconcileNextSheet
    \/ SaveResults
    \/ MainEmail
    \/ MainReturn

SpecMain == InitMain /\ [][NextMain]_vars

-----
(* The assertion compiler and the header merge on their own *)

\* every variable of the pipeline at rest
Idle ==
    /\ wb = << >>
    /\ wb0 = << >>
    /\ base_url_override = Blank
    /\ auth_headers = << >>
    /\ sheet_i = 1
    /\ row_i = 1
    /\ last = NoLast
    /\ folders = << >>
    /\ row_links = << >>
    /\ executions = << >>
    /\ exec_pos = 0
    /\ cols = NoCols
    /\ failed_test_case_ids = << >>
    /\ written = {}
    /\ inserted = << >>
    /\ run = 1
    /\ runner = "not_run"
    /\ effects = << >>

\* sequences without repetition, of length at most n, over S
RECURSIVE DistinctSeqs(_, _)
DistinctSeqs(S, n) ==
    IF n = 0 THEN { << >> }
    ELSE { << >> } \cup
         UNION { {<< x >> \o q : q \in DistinctSeqs(S \ {x}, n - 1)} : x \in S }

OpNames == { "eq", "EQ", "frobnicate", "is_true", "Exists" }

FieldNames == { "status", "data.id" }

\* the conditions of one field: operators in some order, each with an expected
\* value that names it
ConditionSeqs ==
    { [i \in 1..Len(q) |-> [op |-> q[i], expected |-> q[i]]] :
        q \in DistinctSeqs(OpNames, MaxFields) }

\* one field's entry: a mapping of conditions, or a value that is no mapping
FieldEntries(f) ==
    { [field |-> f, is_dict |-> TRUE, conditions |-> c] : c \in ConditionSeqs }
    \cup { [field |-> f, is_dict |-> FALSE, conditions |-> << >>] }

RECURSIVE EntrySeqs(_)
EntrySeqs(fs) ==
    IF fs = << >> THEN { << >> }
    ELSE {<< e >> \o r : e \in FieldEntries(Head(fs)), r \in EntrySeqs(Tail(fs))}

AssertionDicts ==
    UNION { EntrySeqs(fs) : fs \in DistinctSeqs(FieldNames, MaxFields) }

InitAssert ==
    /\ Idle
    /\ pc = "call"
    /\ arg \in { [expected_status |-> e, assertions_dict |-> a] :
                    e \in { Blank, T("200") }, a \in AssertionDicts }
    /\ res = << >>

\* lines 449-458 and _build_assertion_tests applied to the input
CompileScript ==
    /\ pc = "call"
    /\ res' = [ script |-> BuildScript(arg.expected_status, arg.assertions_dict),
                tests |-> _build_assertion_tests(arg.assertions_dict) ]
    /\ pc' = "ret"
    /\ UNCHANGED << wb, wb0, base_url_override, auth_headers, sheet_i, row_i, last,
                    folders, row_links, executions, exec_pos, cols,
                    failed_test_case_ids, written, inserted, run, arg, runner, effects >>

SpecAssert == InitAssert /\ [][CompileScript]_vars

HeaderKeys == { "Authorization", "authorization", "Content-Type", "X-Api-Key" }

AuthKeys == { "Authorization", "x-api-key" }

HeaderLists(keys, value) ==
    { [i \in 1..Len(q) |-> [key |-> q[i], value |-> value]] :
        q \in DistinctSeqs(keys, MaxHeaders) }

InitMerge ==
    /\ Idle
    /\ pc = "call"
    /\ arg \in { [headers_dict |-> x, auth_headers |-> d] :
                    x \in HeaderLists(HeaderKeys, "old"),
                    d \in HeaderLists(AuthKeys, "secret") }
    /\ res = << >>

\* lines 369-373
MergeHeaders ==
    /\ pc = "call"
    /\ res' = RowHeaders(arg.headers_dict, arg.auth_headers)
    /\ pc' = "ret"
    /\ UNCHANGED << wb, wb0, base_url_override, auth_headers, sheet_i, row_i, last,
                    folders, row_links, executions, exec_pos, cols,
                    failed_test_case_ids, written, inserted, run, arg, runner, effects >>

SpecMerge == InitMerge /\ [][MergeHeaders]_vars

QueryKeys == { "a", "b" }

UrlQueries == SeqsUpTo([key : QueryKeys, value : {"", "1"}], MaxPairs)

\* a row's parsed query parameters: distinct keys, each with a value
QueryParamSets ==
    UNION { { [i \in 1..Len(ks) |-> [key |-> ks[i], value |-> vs[i]]] :
                vs \in [1..Len(ks) -> {"", "2"}] } :
            ks \in DistinctSeqs(QueryKeys \cup {"c"}, MaxPairs) }

InitQuery ==
    /\ Idle
    /\ pc = "call"
    /\ arg \in { [url_query |-> q, query_params |-> r] :
                    q \in UrlQueries, r \in QueryParamSets }
    /\ res = << >>

\* lines 386-393
MergeQuery ==
    /\ pc = "call"
    /\ res' = combined_query(arg.url_query, arg.query_params)
    /\ pc' = "ret"
    /\ UNCHANGED << wb, wb0, base_url_override, auth_headers, sheet_i, row_i, last,
                    folders, row_links, executions, exec_pos, cols,
                    failed_test_case_ids, written, inserted, run, arg, runner, effects >>

SpecQuery == InitQuery /\ [][MergeQuery]_vars

-----------------------------------------------------------------------------
(* Claims about the compiler's loop (SpecCompile) *)

SheetTitled(w, title) == w[CHOOSE i \in 1..Len(w) : w[i].title = title]

AllItems == {FlatRequests(folders)[k] : k \in 1..Len(FlatRequests(folders))}

\* the key of the folder that holds the item built from origin
FolderKeyOf(origin) ==
    LET i == CHOOSE j \in 1..Len(folders) :
                 \E k \in 1..Len(folders[j].item) : folders[j].item[k].origin = origin
    IN folders[i].key

\* the value of the nearest row above row_num that is not a blank row and whose
\* cell in column col is non-blank, Blank when there is none
NearestAbove(cells, row_num, col) ==
    LET above == {r \in 2..(row_num - 1) : ~BlankRow(cells[r]) /\ cells[r][col] # Blank}
    IN IF above = {} THEN Blank
       ELSE cells[CHOOSE r \in above : \A q \in above : q <= r][col]

\* C1: for every position k, the k-th (sheet, row) pair of the linkage is the
\* row that produced the k-th request of the collection read folder by folder
\* in folder-creation order and, within a folder, in append order.
C1_LinkageFollowsFlatOrder ==
    /\ Len(row_links) = Len(FlatRequests(folders))
    /\ \A k \in 1..Len(row_links) : FlatRequests(folders)[k].origin = row_links[k]

\* C6: a request built from a row that leaves its method, name or folder cell
\* blank uses the value of the nearest preceding row of the same sheet whose
\* cell for that field is non-blank, whether or not that row produced a request.
C6_StickyFromNearestRow ==
    \A it \in AllItems :
        LET cells == SheetTitled(wb, it.origin[1]).cells
            r == it.origin[2]
            h == cells[1]
            m == _find_idx(h, "method")
            n == _find_idx(h, "name")
            f == _find_idx(h, "folder")
        IN /\ (cells[r][m] = Blank /\ NearestAbove(cells, r, m) # Blank)
                => it.method = Upper(NearestAbove(cells, r, m))
           /\ (cells[r][n] = Blank /\ NearestAbove(cells, r, n) # Blank)
                => it.name = NearestAbove(cells, r, n)
           /\ (cells[r][f] = Blank /\ NearestAbove(cells, r, f) # Blank)
                => FolderKeyOf(it.origin) = _norm(NearestAbove(cells, r, f))

-----------------------------------------------------------------------------
(* Claims about URL resolution (SpecUrl) *)

\* the rows the row loop has passed
Processed(s, r) ==
    /\ s \in 1..Len(wb) /\ r \in 2..max_row(wb[s])
    /\ s < sheet_i \/ (s = sheet_i /\ r < row_i)

ItemsOf(title, r) == {it \in AllItems : it.origin = << title, r >>}

\* a field's value on a row under carry-forward: the row's cell, else the
\* nearest non-blank cell above it
CarriedCell(cells, r, col) ==
    IF col = 0 THEN Blank
    ELSE IF cells[r][col] # Blank THEN cells[r][col]
    ELSE NearestAbove(cells, r, col)

\* a and p joined with exactly one slash between them
JoinOneSlash(a, p) == RStrip(a, "/") \o << "/" >> \o LStrip(p, "/")

\* the precedence chain as the claim words it; full_url is rule (2)'s value
ClaimedUrl(override, full_url, base, path) ==
    IF override # Blank /\ path # Blank THEN JoinOneSlash(override, path)
    ELSE IF full_url # Blank THEN full_url
    ELSE IF base # Blank /\ path # Blank THEN JoinOneSlash(base, path)
    ELSE IF StartsWithHttp(path) THEN path
    ELSE Blank

\* every passed non-blank row of a compiled sheet has exactly the request the
\* chain gives it, rule (2) reading the value full(cells, r, column)
UrlChosenBy(full(_, _, _)) ==
    \A s \in 1..Len(wb) : \A r \in 2..max_row(wb[s]) :
        (Processed(s, r) /\ ~CompilerSkips(wb[s]) /\ ~BlankRow(wb[s].cells[r])) =>
            LET cells == wb[s].cells
                h == cells[1]
                u == ClaimedUrl(base_url_override,
                                full(cells, r, _find_idx(h, "url")),
                                CarriedCell(cells, r, _find_idx(h, "base_url")),
                                CarriedCell(cells, r, _find_idx(h, "path")))
            IN IF u = Blank THEN ItemsOf(wb[s].title, r) = {}
               ELSE \E it \in ItemsOf(wb[s].title, r) : it.url = u

TrimmedOwnCell(cells, r, col) == IF col = 0 THEN Blank ELSE Strip(cells[r][col])

TrimmedCarriedCell(cells, r, col) == Strip(CarriedCell(cells, r, col))

\* C7 as stated: the request URL of a row is chosen by the first rule that
\* yields a non-empty value: (1) override joined to the row's or carried-forward
\* path with exactly one slash, (2) the row's own full-URL cell (read without
\* its surrounding whitespace), (3) the row's or carried-forward base URL joined
\* to the path, (4) a path that starts with an HTTP scheme.
C7_UrlPrecedenceAsStated == UrlChosenBy(TrimmedOwnCell)

\* C7 as amended: the same chain with rule (2) reading the row's or
\* carried-forward full-URL value with surrounding whitespace removed.
C7_UrlPrecedence == UrlChosenBy(TrimmedCarriedCell)

\* C7 witness: a request was built for a row that has an override, a path and
\* a full-URL value, and its URL is override + "/" + path.
C7_Witness ==
    \E s \in 1..Len(wb) : \E r \in 2..max_row(wb[s]) :
        /\ Processed(s, r)
        /\ base_url_override # Blank
        /\ wb[s].cells[r][_find_idx(wb[s].cells[1], "url")] # Blank
        /\ Strip(wb[s].cells[r][_find_idx(wb[s].cells[1], "url")]) # Blank
        /\ wb[s].cells[r][_find_idx(wb[s].cells[1], "base_url")] # Blank
        /\ wb[s].cells[r][_find_idx(wb[s].cells[1], "path")] # Blank
        /\ \E it \in ItemsOf(wb[s].title, r) :
              it.url = << "https:", "/", "/", "gw", "/", "p" >>

-----------------------------------------------------------------------------
(* Claims about reconciliation (SpecReconcile) *)

RECURSIVE LinkedFrom(_, _)
\* the linked rows from row r of sheet s on: sheets in workbook order, rows ascending
LinkedFrom(s, r) ==
    IF s > Len(wb) THEN << >>
    ELSE IF r > max_row(wb[s]) THEN LinkedFrom(s + 1, 2)
    ELSE (IF Linked(row_links, wb[s].title, r) THEN << [sheet |-> s, row |-> r] >>
          ELSE << >>) \o LinkedFrom(s, r + 1)

LinkedRowSeq == LinkedFrom(1, 2)

\* the verdict the claims give an execution
ClaimedVerdict(e) ==
    IF \E i \in 1..Len(e.assertions) : e.assertions[i] THEN T("FAILED") ELSE T("PASSED")

WrittenTo(p) == {w \in written : w.sheet = p.sheet /\ w.row = p.row}

\* linked row p holds execution e: its code under ActualStatus, its verdict
\* under Status, and nothing else was written to the row
RowHolds(p, e) ==
    LET cells == wb[p.sheet].cells
    IN /\ cells[p.row][find_col(cells, ActualStatusName)] = e.code
       /\ cells[p.row][find_col(cells, StatusName)] = ClaimedVerdict(e)
       /\ {<< w.column, w.value >> : w \in WrittenTo(p)} =
             { << find_col(cells, ActualStatusName), e.code >>,
               << find_col(cells, StatusName), ClaimedVerdict(e) >> }

\* C2: given n linked rows and exactly n executions, the k-th linked row
\* (sheets in workbook order, rows ascending) receives the response code of the
\* k-th execution as actual status and a verdict that is FAILED iff at least one
\* assertion of that execution has a non-null error, else PASSED; no linked row
\* receives another execution's values.
C2_EachRowItsOwnExecution ==
    (pc = "done" /\ Len(executions) = Len(LinkedRowSeq)) =>
        \A k \in 1..Len(LinkedRowSeq) : RowHolds(LinkedRowSeq[k], executions[k])

\* C2 witness: three linked rows over two sheets were reconciled with three
\* executions, one passed and one failed.
C2_Witness ==
    /\ pc = "done" /\ Len(executions) = 3 /\ Len(LinkedRowSeq) = 3
    /\ LinkedRowSeq[1].sheet # LinkedRowSeq[3].sheet
    /\ ClaimedVerdict(executions[1]) # ClaimedVerdict(executions[3])

\* C3: with m executions for n linked rows, m < n, reconciliation completes:
\* exactly the first m linked rows get actual-status and verdict cells and every
\* remaining linked row, in the current and all later sheets, has nothing
\* written and keeps the cells it had.
C3_ShortReadWritesFirstRows ==
    (pc = "done" /\ Len(executions) < Len(LinkedRowSeq)) =>
        \A k \in 1..Len(LinkedRowSeq) :
            LET p == LinkedRowSeq[k]
            IN IF k <= Len(executions) THEN RowHolds(p, executions[k])
               ELSE /\ WrittenTo(p) = {}
                    /\ SelectSeq(wb[p.sheet].cells[p.row], LAMBDA c : c # Blank)
                         = SelectSeq(wb0[p.sheet].cells[p.row], LAMBDA c : c # Blank)

\* C3 witness: a short read that wrote at least one row and left a linked row
\* of a later sheet unwritten.
C3_Witness ==
    /\ pc = "done" /\ Len(executions) >= 1 /\ Len(executions) < Len(LinkedRowSeq)
    /\ LinkedRowSeq[Len(LinkedRowSeq)].sheet > LinkedRowSeq[Len(executions)].sheet
    /\ WrittenTo(LinkedRowSeq[Len(LinkedRowSeq)]) = {}

RECURSIVE ClaimedFailureIds(_)
\* the failure identifiers of the first k reconciled rows as the claim gives
\* them: the row's cell in the identifier column when the column exists and the
\* cell is non-blank, else the request's display name
ClaimedFailureIds(k) ==
    IF k = 0 THEN << >>
    ELSE LET p == LinkedRowSeq[k]
             e == executions[k]
             c0 == wb0[p.sheet].cells
             id_val == IF IdIdx(c0) # 0 THEN c0[p.row][IdIdx(c0)] ELSE Blank
         IN ClaimedFailureIds(k - 1) \o
            (IF ClaimedVerdict(e) # T("FAILED") THEN << >>
             ELSE IF id_val # Blank THEN << id_val >>
             ELSE IF e.name # Blank THEN << e.name >> ELSE << >>)

Min(a, b) == IF a <= b THEN a ELSE b

\* C4: for a FAILED row the recorded failure identifier is the row's cell in
\* the identifier column whenever that column exists and the cell is non-blank,
\* wherever the identifier column stands relative to the expected-status column
\* and also when the result columns are inserted in the same reconciliation;
\* otherwise it is the request's display name.
C4_FailureIdentifier ==
    pc = "done" =>
        failed_test_case_ids =
            ClaimedFailureIds(Min(Len(executions), Len(LinkedRowSeq)))

-----------------------------------------------------------------------------
(* Claims about repeated reconciliation (SpecRerun) *)

\* the reconciler of this invocation has placed the columns of sheet s
Reconciled(s) ==
    /\ wb[s].sheet_state = "visible"
    /\ \/ pc = "done"
       \/ pc = "reconcile" /\ (s < sheet_i \/ (s = sheet_i /\ row_i >= 2))

HeaderCount(cells, name) == Cardinality({i \in 1..Len(cells[1]) : cells[1][i] = name})

\* C5: column insertion is idempotent: once the reconciler has run on a sheet,
\* a later run on the resulting sheet inserts no column, so the header row holds
\* exactly one ActualStatus and exactly one Status column; when only one of the
\* two exists beforehand, exactly one column, the missing one, is inserted.
C5_ColumnInsertionIdempotent ==
    \A s \in 1..Len(wb) :
        Reconciled(s) =>
            LET before == wb0[s].cells
                after == wb[s].cells
                had == HeaderCount(before, ActualStatusName)
                       + HeaderCount(before, StatusName)
            IN /\ HeaderCount(after, ActualStatusName) = 1
               /\ HeaderCount(after, StatusName) = 1
               /\ run > 1 => /\ Len(after[1]) = Len(before[1])
                             /\ after[1] = before[1]
                             /\ inserted[s] = 0
               /\ had = 1 => /\ Len(after[1]) = Len(before[1]) + 1
                             /\ inserted[s] = 1

\* C5 witness: a second invocation has reconciled a sheet to which the first
\* one added both result columns, and has written a row of it.
C5_Witness ==
    /\ run = 2 /\ pc = "done"
    /\ \E s \in 1..Len(wb) :
          /\ Reconciled(s)
          /\ HeaderCount(wb0[s].cells, StatusName) = 1
          /\ HeaderCount(wb0[s].cells, ActualStatusName) = 1
          /\ \E w \in written : w.sheet = s

-----------------------------------------------------------------------------
(* Claims about the assertion compiler (SpecAssert) *)

IsTest(st) == st.kind # "status" /\ st.kind # "valid_json"

Positions(script, kind) == {i \in 1..Len(script) : script[i].kind = kind}

\* C8 as stated: the test-statement list of every compiled request begins with
\* the 'Response is valid JSON' check, the check occurs exactly once and it
\* precedes the status assertion and every field assertion, whether or not the
\* row has an expected status or an assertion specification.
C8_ValidJsonFirstAlways ==
    pc = "ret" =>
        /\ Len(res.script) >= 1
        /\ res.script[1] = ValidJsonStmt
        /\ Cardinality(Positions(res.script, "valid_json")) = 1

\* C8 as amended: a request whose row has a non-empty assertion mapping has the
\* check exactly once, before every field assertion and directly after the
\* status assertion when the row has an expected status (first otherwise); a
\* request whose row has no assertion mapping has no such check.
C8_ValidJsonBeforeFieldTests ==
    pc = "ret" =>
        IF arg.assertions_dict = << >>
        THEN Positions(res.script, "valid_json") = {}
        ELSE /\ Positions(res.script, "valid_json") =
                    { IF arg.expected_status # Blank THEN 2 ELSE 1 }
             /\ arg.expected_status # Blank => res.script[1].kind = "status"
             /\ \A i \in 1..Len(res.script) :
                    IsTest(res.script[i]) =>
                        \A j \in Positions(res.script, "valid_json") : j < i

\* C8 witness: a script was built for a row with an expected status and a
\* field assertion: status, check, field test.
C8_Witness ==
    /\ pc = "ret"
    /\ arg.expected_status # Blank
    /\ Len(res.script) = 3
    /\ res.script[2] = ValidJsonStmt
    /\ IsTest(res.script[3])

\* the operator names the compiler's table holds
TableNames ==
    { "equals", "equal", "eq", "==", "notequals", "not_equals", "!=", "ne",
      "notempty", "not_empty", "greaterthanorequal", "greater_than_or_equal", "gte",
      "greaterthan", "greater_than", "gt", "lessthanorequal", "less_than_or_equal",
      "lte", "lessthan", "less_than", "lt", "contains", "includes", "true", "istrue",
      "false", "isfalse", "exists" }

RECURSIVE RecognisedOf(_, _)
\* << field, expected >> of the operators of one field that are in the table
RecognisedOf(field, conditions) ==
    IF conditions = << >> THEN << >>
    ELSE (IF LowerTok(Head(conditions).op) \in TableNames
          THEN << << field, Head(conditions).expected >> >> ELSE << >>)
         \o RecognisedOf(field, Tail(conditions))

RECURSIVE Recognised(_)
Recognised(assertions_dict) ==
    IF assertions_dict = << >> THEN << >>
    ELSE (IF Head(assertions_dict).is_dict
          THEN RecognisedOf(Head(assertions_dict).field, Head(assertions_dict).conditions)
          ELSE << >>)
         \o Recognised(Tail(assertions_dict))

-----------------------------------------------------------------------------
(* Claims about the header merge (SpecMerge) *)

Matches(headers, key) ==
    {i \in 1..Len(headers) : LowerTok(headers[i].key) = LowerTok(key)}

\* C10: after the auth headers are merged into a row's header list, for each
\* auth header name exactly one header of the list has that name
\* case-insensitively and its value is the auth value; the headers that existed
\* before keep their relative order, and an auth header without a
\* case-insensitive match is appended at the end.
C10_AuthHeaderUniqueAfterMerge ==
    pc = "ret" =>
        LET x == ListedHeaders(arg.headers_dict)
            d == arg.auth_headers
        IN /\ \A k \in 1..Len(d) :
                 /\ Cardinality(Matches(res, d[k].key)) = 1
                 /\ \A i \in Matches(res, d[k].key) : res[i].value = d[k].value
           /\ Len(res) >= Len(x)
           /\ \A i \in 1..Len(x) : res[i].key = x[i].key
           /\ \A k \in 1..Len(d) :
                 Matches(x, d[k].key) = {} =>
                     \E i \in (Len(x) + 1)..Len(res) : res[i].key = d[k].key

-----------------------------------------------------------------------------
(* Claims about the query merge (SpecQuery) *)

KeysOf(pairs) == [i \in 1..Len(pairs) |-> pairs[i].key]

RECURSIVE FirstOccurrences(_, _)
\* the keys of ks not in seen, each once, in the order of their first occurrence
FirstOccurrences(ks, seen) ==
    IF ks = << >> THEN << >>
    ELSE IF Head(ks) \in seen THEN FirstOccurrences(Tail(ks), seen)
    ELSE << Head(ks) >> \o FirstOccurrences(Tail(ks), seen \cup {Head(ks)})

ValuesOf(pairs, k) == {pairs[i].value : i \in {j \in 1..Len(pairs) : pairs[j].key = k}}

\* C11: the final query is the URL's existing query pairs overlaid with the
\* row's query parameters: every existing key keeps its position, a key of the
\* row replaces the existing value there, keys only in the row follow all
\* existing keys in row order, and each key occurs exactly once.
C11_QueryOverlay ==
    pc = "ret" =>
        LET existing == KeysOf(arg.url_query)
            row == KeysOf(arg.query_params)
        IN /\ KeysOf(res) = FirstOccurrences(existing, {})
                               \o FirstOccurrences(row, {existing[i] : i \in 1..Len(existing)})
           /\ \A i \in 1..Len(res) :
                 IF ValuesOf(arg.query_params, res[i].key) # {}
                 THEN res[i].value \in ValuesOf(arg.query_params, res[i].key)
                 ELSE res[i].value \in ValuesOf(arg.url_query, res[i].key)

-----------------------------------------------------------------------------
(* Claims about main (SpecMain) *)

Has(log, e) == \E i \in 1..Len(log) : log[i] = e

\* token acquisition fails for one of the reasons the claim lists
AuthFails ==
    /\ arg.auth.present
    /\ \/ arg.auth.base_url = Blank /\ base_url_override = Blank
       \/ arg.auth.endpoint = Blank
       \/ arg.reply.kind = "unreachable"
       \/ arg.reply.kind = "not_json"
       \/ arg.reply.kind = "json" /\ arg.reply.token = Blank

\* C12: when an auth configuration is present and token acquisition fails with
\* an authentication error, main aborts before the collection is generated: no
\* collection file is written, the runner is never invoked, no results
\* spreadsheet is saved and no email is sent.
C12_AuthErrorAbortsBeforeGeneration ==
    (arg.excel_path /\ AuthFails) =>
        /\ pc \in {"main", "aborted"}
        /\ effects = << >>
        /\ runner = "not_run"
        /\ folders = << >> /\ row_links = << >> /\ wb = wb0

\* C12 witness: main has aborted on a JSON answer without a token at the path,
\* with a workbook that holds a compilable row and recipients configured.
C12_Witness ==
    /\ pc = "aborted"
    /\ arg.reply.kind = "json" /\ arg.reply.token = Blank
    /\ arg.auth.endpoint # Blank
    /\ arg.recipients
    /\ max_row(wb[Len(wb)]) >= 2 /\ base_url_override # Blank

\* rows the reconciler wrote into in this run
WrittenRows == { << w.sheet, w.row >> : w \in written }

\* C13: when the runner exits non-zero and its output artifact does not exist,
\* no results spreadsheet copy is generated for that run; when it exits
\* non-zero and the artifact exists, its executions are read and reconciliation
\* proceeds as for a zero exit (the results copy is saved with one row written
\* per execution read).
C13_NoReportWithoutArtifact ==
    /\ runner = "failed_no_artifact" => ~Has(effects, "results_file")
    /\ (runner = "failed_with_artifact" /\ pc \in {"done", "returned"}) =>
           /\ Has(effects, "results_file")
           /\ Cardinality(WrittenRows) = Min(Len(executions), Len(row_links))

-----------------------------------------------------------------------------
(* Claims about requests and linkage during row processing (SpecUrl) *)

\* positions of the linkage that name row r of the sheet titled title
LinksOf(title, r) == {k \in 1..Len(row_links) : row_links[k] = << title, r >>}

\* positions of the flat request list built from row r of that sheet
RequestsOf(title, r) ==
    {k \in 1..Len(FlatRequests(folders)) :
        FlatRequests(folders)[k].origin = << title, r >>}

\* row r of sheet s is not blank and the precedence chain gives it a URL
Resolvable(s, r) ==
    LET cells == wb[s].cells
        h == cells[1]
    IN /\ ~BlankRow(cells[r])
       /\ ClaimedUrl(base_url_override,
                     TrimmedCarriedCell(cells, r, _find_idx(h, "url")),
                     CarriedCell(cells, r, _find_idx(h, "base_url")),
                     CarriedCell(cells, r, _find_idx(h, "path"))) # Blank

\* C14: at every point of row processing the linkage holds as many pairs as
\* the folders hold requests; every passed non-blank row with a resolvable URL
\* has exactly one request and exactly one pair, and a passed blank row or a
\* row with no resolvable URL has neither.
C14_OneLinkPerRequest ==
    pc = "compile" =>
        /\ Len(row_links) = Len(FlatRequests(folders))
        /\ \A s \in 1..Len(wb) : \A r \in 2..max_row(wb[s]) :
              (Processed(s, r) /\ ~CompilerSkips(wb[s])) =>
                  LET n == IF Resolvable(s, r) THEN 1 ELSE 0
                  IN /\ Cardinality(LinksOf(wb[s].title, r)) = n
                     /\ Cardinality(RequestsOf(wb[s].title, r)) = n
        /\ \A s \in 1..Len(wb) : \A r \in 2..max_row(wb[s]) :
              ~(Processed(s, r) /\ ~CompilerSkips(wb[s])) =>
                  LinksOf(wb[s].title, r) = {} /\ RequestsOf(wb[s].title, r) = {}

\* C14 witness: two rows have been passed, a non-blank one that resolves to no
\* URL and one that was compiled into the only request.
C14_Witness ==
    /\ pc = "compile" /\ sheet_i = 1 /\ row_i = 4
    /\ ~CompilerSkips(wb[1])
    /\ Len(row_links) = 1 /\ Len(FlatRequests(folders)) = 1
    /\ \E r \in 2..3 : ~BlankRow(wb[1].cells[r]) /\ ~Resolvable(1, r)

-----------------------------------------------------------------------------
(* Claims about blank rows and the start of a sheet (SpecCompile) *)

\* the compiler is at a row of the current sheet whose cells are all blank
AtBlankRow ==
    /\ pc = "compile" /\ sheet_i <= Len(wb)
    /\ row_i >= 2 /\ row_i <= max_row(CurSheet)
    /\ BlankRow(CurRow)

\* every request built from the first non-blank row of its sheet has method GET,
\* name Unnamed and the sheet's folder wherever that row leaves the cell blank
FirstRowDefaults ==
    \A it \in AllItems :
        LET cells == SheetTitled(wb, it.origin[1]).cells
            r == it.origin[2]
            h == cells[1]
            m == _find_idx(h, "method")
            n == _find_idx(h, "name")
            f == _find_idx(h, "folder")
        IN (\A q \in 2..(r - 1) : BlankRow(cells[q])) =>
              /\ cells[r][m] = Blank => it.method = T("GET")
              /\ cells[r][n] = Blank => it.name = T("Unnamed")
              /\ cells[r][f] = Blank => FolderKeyOf(it.origin) = _norm(it.origin[1])

\* C15: a row whose cells are all blank is skipped and leaves every
\* carried-forward value (method, name, folder, URL, base URL, path) unchanged,
\* adding no request; the carried values are re-initialised at the start of
\* each sheet, so the first row of a sheet that omits them gets method GET,
\* folder equal to the sheet's title and name Unnamed, never a value of a
\* previous sheet.
C15_BlankRowKeepsCarriedValues ==
    /\ []FirstRowDefaults
    /\ [][AtBlankRow => (last' = last /\ folders' = folders /\ row_links' = row_links
                         /\ row_i' = row_i + 1)]_vars

\* C15 witness: in the second sheet a blank row has been passed after a row
\* that set a path, and the first sheet gave a request with a method of its
\* own while the second sheet's first row gave one with the defaults.
C15_Witness ==
    /\ pc = "compile" /\ sheet_i = 2 /\ row_i >= 4
    /\ BlankRow(wb[2].cells[row_i - 1])
    /\ last.path # Blank
    /\ \E it \in AllItems : it.origin[1] = T("S1") /\ it.method = T("POST")
    /\ \E it \in AllItems :
          /\ it.origin = << T("S2"), 2 >>
          /\ it.method = T("GET") /\ it.name = T("Unnamed")
          /\ FolderKeyOf(it.origin) = T("s2")

-----------------------------------------------------------------------------
(* Claims about the layout after reconciliation (SpecReconcile) *)

\* the input sheet has an expected-status column and neither result column
NeedsBothColumns(cells) ==
    /\ ExpectedIdx(cells) # 0
    /\ HeaderCount(cells, ActualStatusName) = 0
    /\ HeaderCount(cells, StatusName) = 0

\* C16: when a sheet has an expected-status column and neither ActualStatus nor
\* Status exists, the reconciler places ActualStatus and Status at the two
\* positions right after the expected-status column; every column that was to
\* the right of it is two positions further right with its header and all its
\* row cells intact, and every column at or left of it is unchanged.
C16_ColumnsInsertedAfterExpected ==
    \A s \in 1..Len(wb) :
        (Reconciled(s) /\ NeedsBothColumns(wb0[s].cells)) =>
            LET before == wb0[s].cells
                after == wb[s].cells
                e == ExpectedIdx(before)
            IN /\ Len(after) = Len(before)
               /\ after[1][e + 1] = ActualStatusName
               /\ after[1][e + 2] = StatusName
               /\ \A r \in 1..Len(before) :
                     /\ Len(after[r]) = Len(before[r]) + 2
                     /\ \A c \in 1..Len(before[r]) :
                           IF c <= e THEN after[r][c] = before[r][c]
                           ELSE after[r][c + 2] = before[r][c]

\* C16 witness: both columns were inserted into a sheet with a column right of
\* the expected-status column, and a row with a value in that column was
\* written.
C16_Witness ==
    \E s \in 1..Len(wb) :
        /\ Reconciled(s) /\ NeedsBothColumns(wb0[s].cells)
        /\ inserted[s] = 2
        /\ Len(wb0[s].cells[1]) > ExpectedIdx(wb0[s].cells)
        /\ \E w \in written :
              /\ w.sheet = s
              /\ wb0[s].cells[w.row][ExpectedIdx(wb0[s].cells) + 1] # Blank

\* column c of the input sheet is a result column and not the expected-status
\* column; every other input column is to be found in the output, at its place
\* or further right, with its header and all its row cells
ResultColumn(cells, c) ==
    /\ cells[1][c] \in {ActualStatusName, StatusName}
    /\ c # ExpectedIdx(cells)

\* C18: the reconciler never changes the value of a cell of a column that
\* existed in the input sheet, for every input header layout, the one whose
\* expected-status column is titled exactly Status included: verdict and
\* actual-status values are written only into result columns, and the
\* expected-status values of all rows are the same after reconciliation as
\* before.
C18_InputColumnsKeepTheirValues ==
    \A s \in 1..Len(wb) :
        Reconciled(s) =>
            LET before == wb0[s].cells
                after == wb[s].cells
            IN /\ \A w \in written :
                     w.sheet = s => after[1][w.column] \in {ActualStatusName, StatusName}
               /\ \A c \in 1..Len(before[1]) :
                     ~ResultColumn(before, c) =>
                        \E d \in c..Len(after[1]) :
                           \A r \in 1..Len(before) : after[r][d] = before[r][c]

\* C19: a sheet that the compiler skips (hidden, no first row, or a first row
\* with no non-blank header) contributes no request and no linkage pair,
\* consumes no execution during reconciliation, and is left unchanged in the
\* results copy: no ActualStatus or Status header is added to it.
C19_SkippedSheetUntouched ==
    \A s \in 1..Len(wb) :
        CompilerSkips(wb0[s]) =>
            /\ \A r \in 1..max_row(wb[s]) :
                  LinksOf(wb[s].title, r) = {} /\ RequestsOf(wb[s].title, r) = {}
            /\ \A w \in written : w.sheet # s
            /\ wb[s] = wb0[s]

-----------------------------------------------------------------------------
(* Claims about compiling a results copy (SpecRerun) *)

\* C20: compiling the annotated results copy resolves the expected-status field
\* to the same column as compiling the original sheet: for every
\* expected-status header of the synonym list, the added ActualStatus and
\* Status columns do not change the column the schema resolver picks, and each
\* row's expected status, hence its status assertion, is the same on a re-run.
C20_ExpectedColumnStableOnRerun ==
    \A s \in 1..Len(wb) :
        (pc = "done" /\ ~CompilerSkips(wb0[s])
            /\ _find_idx(HeaderRow(wb0[s]), "expected_status") # 0) =>
            LET before == wb0[s].cells
                after == wb[s].cells
                idx0 == _find_idx(before[1], "expected_status")
                idx1 == _find_idx(after[1], "expected_status")
            IN /\ idx1 # 0
               /\ after[1][idx1] = before[1][idx0]
               /\ \A r \in 2..Len(before) :
                     _safe_int(after[r][idx1]) = _safe_int(before[r][idx0])

-----------------------------------------------------------------------------
(* Claims about the order of the test script (SpecAssert) *)

\* C17: in every compiled request that has an expected status, the status-code
\* test statement precedes every field-assertion statement, for every
\* iteration order of the assertion mapping; a row with neither expected
\* status nor assertions gets no test event at all.
C17_StatusBeforeFieldTests ==
    pc = "ret" =>
        /\ arg.expected_status # Blank =>
              /\ Positions(res.script, "status") = {1}
              /\ \A i \in 1..Len(res.script) : IsTest(res.script[i]) => i > 1
        /\ arg.expected_status = Blank => Positions(res.script, "status") = {}
        /\ (arg.expected_status = Blank /\ arg.assertions_dict = << >>) =>
              res.script = << >>

\* C17 witness: a script with the status test and the tests of two fields,
\* the field data.id coming before the field status in the mapping.
C17_Witness ==
    /\ pc = "ret"
    /\ arg.expected_status # Blank
    /\ Len(arg.assertions_dict) = 2
    /\ arg.assertions_dict[1].field = "data.id"
    /\ arg.assertions_dict[2].field = "status"
    /\ Cardinality({i \in 1..Len(res.script) : IsTest(res.script[i])}) >= 2
    /\ res.script[1].kind = "status"

====
